---- MODULE Spec2Model ----
(***************************************************************************)
(* State-machine model of renderdoc/driver/d3d12/d3d12_manager.h:          *)
(*   - GPUAddressRangeTracker (AddTo / RemoveFrom / GetResIDFromAddr),     *)
(*     sequentially (SpecTracker) and from several threads (SpecConc);     *)
(*   - D3D12ResourceRecord::Insert (SpecInsert) and ::Bake (SpecBake);     *)
(*   - ReservedResource::Update (SpecReserved);                            *)
(*   - descriptor handles and PortableHandle (SpecHandle).                 *)
(* Each specification moves only its own group of variables; the other     *)
(* groups stay at their idle values.                                       *)
(***************************************************************************)
EXTENDS Integers, Sequences, FiniteSets, TLC

VARIABLES
  \* GPUAddressRangeTracker
  addresses,     \* std::vector<GPUAddressRange>, index 1 is begin()
  halted,        \* the process stopped (debug break on RDCASSERT, or a crash)
  lastCall,      \* the last tracker call: name, address argument, RDCASSERT
                 \* outcome, and GetResIDFromAddr's out-parameters id and offs
  \* threads on one tracker
  addressLock,   \* Threading::CriticalSection: 0 when free, else the owner
  pc,            \* each thread's position
  frame,         \* each thread's arguments and locals
  seen,          \* per thread: lookup results of every tracker content since the call
  \* D3D12ResourceRecord::Insert
  Parents,       \* each record's Parents set
  m_Chunks,      \* each record's chunk map, as its set of keys (chunk ids)
  DataWritten,   \* each record's DataWritten flag
  recordlist,    \* map<int32_t, Chunk *>, as the sequence its iteration yields
  insertCount,   \* per record: how often its chunks were handed to recordlist.insert
  flips,         \* per record: how often DataWritten went from false to true
  lastInsert,    \* "none", or whether the last top-level Insert found its record written
  called,        \* the records Insert was called on from outside
  \* Insert, one step at a time
  stack,         \* the activations of Insert: record, local dataWritten, parents to visit
  entered,       \* per record: activations of Insert on it since the top-level call
  \* D3D12ResourceRecord::Bake
  live,          \* the command list's record: m_Chunks and the lists of *cmdInfo
  baked,         \* *bakedCommands: m_Chunks and the lists of its *cmdInfo
  nextItem,      \* the next chunk / barrier / id / descriptor / bundle to record
  lastBake,      \* whether Bake was the last call, and both records as it found them
  \* ReservedResource
  mappings,      \* map<ID3D12Heap*, TileMapping&>: a function on the mapped heaps
  lastUpdate,    \* the arguments of the last Update, and mappings as it found them
  \* descriptor heaps and the resource manager
  heapObj,       \* each WrappedID3D12DescriptorHeap: alive, its id, its descriptors
  liveRes,       \* the manager's table from ResourceId to live heap object
  descMem,       \* memory holding D3D12Descriptor records, by address: heap and idx
  nextResId,     \* the next ResourceId to hand out
  \* D3D12Descriptor::GetType
  nonsampType,   \* the descriptor's nonsamp.type field, as the int it is stored as
  typeRet,       \* whether GetType was the last call, and what it returned
  \* D3D12_UNORDERED_ACCESS_VIEW_DESC_SQUEEZED
  uavArg,        \* the native description last passed to Init
  uavDesc,       \* the squeezed struct's fields
  uavRet         \* whether AsDesc was the last call, and the description it returned

trackerVars == <<addresses, halted, lastCall>>
concVars == <<addressLock, pc, frame, seen>>
insertVars == <<Parents, m_Chunks, DataWritten, recordlist, insertCount, flips, lastInsert, called>>
stepVars == <<stack, entered>>
bakeVars == <<live, baked, nextItem, lastBake>>
resVars == <<mappings, lastUpdate>>
handleVars == <<heapObj, liveRes, descMem, nextResId>>
typeVars == <<nonsampType, typeRet>>
uavVars == <<uavArg, uavDesc, uavRet>>
vars == <<trackerVars, concVars, insertVars, stepVars, bakeVars, resVars, handleVars,
          typeVars, uavVars>>

notTracker == <<concVars, insertVars, stepVars, bakeVars, resVars, handleVars, typeVars, uavVars>>
notInsert == <<trackerVars, concVars, stepVars, bakeVars, resVars, handleVars, typeVars, uavVars>>
notInsertSteps == <<trackerVars, concVars, bakeVars, resVars, handleVars, typeVars, uavVars>>
notBake == <<trackerVars, concVars, insertVars, stepVars, resVars, handleVars, typeVars, uavVars>>
notReserved == <<trackerVars, concVars, insertVars, stepVars, bakeVars, handleVars, typeVars, uavVars>>
notHandle == <<trackerVars, concVars, insertVars, stepVars, bakeVars, resVars, typeVars, uavVars>>
notType == <<trackerVars, concVars, insertVars, stepVars, bakeVars, resVars, handleVars, uavVars>>
notUAV == <<trackerVars, concVars, insertVars, stepVars, bakeVars, resVars, handleVars, typeVars>>
notConc == <<insertVars, stepVars, bakeVars, resVars, handleVars, typeVars, uavVars>>

(***************************************************************************)
(* Bounds                                                                  *)
(***************************************************************************)
MaxAddr == 3
MaxRanges == 3
ConcMaxAddr == 1
ConcMaxRanges == 1
MaxEdges == 3
MaxChunk == 2
MaxDepth == 4
MaxItems == 3
NumHeaps == 2
MaxRegions == 2
MaxTileRanges == 1
MaxTiles == 1
NumHeapObjs == 2
MaxDescs == 2
MaxSlots == 4
MaxResId == 3
MaxFilter == 60
TagMargin == 3
MaxWrap == 1

\* ResourceId(): the null id
NullId == 0

Addrs == 0..(MaxAddr + 1)

\* the resources that register a range: three, enough for a range on each
\* side of another and for a search that halves twice
ResourceIds == {1, 2, 3}

\* struct GPUAddressRange { start, end; id }, a non-empty half-open interval
\* of non-null GPU virtual addresses
GPUAddressRange ==
  {r \in [start : 1..MaxAddr, end : 2..(MaxAddr + 1), id : ResourceIds] : r.start < r.end}

\* bool GPUAddressRange::operator<(const D3D12_GPU_VIRTUAL_ADDRESS &o)
LessByStart(r, o) == IF r.start < o THEN TRUE ELSE FALSE
Less(r, o) == IF o < r.start THEN TRUE ELSE FALSE

\* std::lower_bound(first, first + len, val): the halving search
RECURSIVE LowerBoundFrom(_, _, _, _)
LowerBoundFrom(s, first, len, val) ==
  IF len = 0 THEN first
  ELSE LET half == len \div 2
           mid == first + half
       IN IF Less(s[mid], val)
          THEN LowerBoundFrom(s, mid + 1, len - half - 1, val)
          ELSE LowerBoundFrom(s, first, half, val)

\* std::lower_bound(addresses.begin(), addresses.end(), val); Len(s) + 1 is end()
lower_bound(s, val) == LowerBoundFrom(s, 1, Len(s), val)

\* vector::insert(it, x)
VecInsert(s, it, x) == SubSeq(s, 1, it - 1) \o <<x>> \o SubSeq(s, it, Len(s))

\* vector::erase(it) for it # end()
VecErase(s, it) == SubSeq(s, 1, it - 1) \o SubSeq(s, it + 1, Len(s))

\* the condition of the RDCASSERT in AddTo
AddToAssert(s, range) ==
  LET it == lower_bound(s, range.start)
  IN \/ it = 1
     \/ it = Len(s) + 1
     \/ range.start < s[it].start
     \/ range.start >= s[it].end

\* addresses after AddTo(range)
AddToResult(s, range) == VecInsert(s, lower_bound(s, range.start), range)

\* the condition of the RDCASSERT in RemoveFrom
RemoveFromAssert(s, baseAddr) ==
  LET it == lower_bound(s, baseAddr)
  IN /\ it # Len(s) + 1
     /\ baseAddr >= s[it].start
     /\ baseAddr < s[it].end

\* The values addresses can have after RemoveFrom(baseAddr) returns.
\* erase(end()) is undefined: the vector is left alone or loses its last
\* element (or the process dies, see RemoveFrom).
RemoveFromResults(s, baseAddr) ==
  LET it == lower_bound(s, baseAddr)
  IN IF it # Len(s) + 1 THEN {VecErase(s, it)}
     ELSE {s} \cup (IF Len(s) > 0 THEN {SubSeq(s, 1, Len(s) - 1)} ELSE {})

\* GetResIDFromAddr(addr, id, offs) on the contents s: the pair of outputs
LookupResult(s, addr) ==
  IF addr = 0 THEN [id |-> NullId, offs |-> 0]
  ELSE LET it == lower_bound(s, addr)
       IN IF it = Len(s) + 1 THEN [id |-> NullId, offs |-> 0]
          ELSE LET range == s[it]
               IN IF addr < range.start \/ addr >= range.end
                  THEN [id |-> NullId, offs |-> 0]
                  ELSE [id |-> range.id, offs |-> addr - range.start]

NoCall == [op |-> "none", addr |-> 0, ok |-> TRUE, id |-> NullId, offs |-> 0]

InitTracker ==
  /\ addresses = <<>>
  /\ halted = FALSE
  /\ lastCall = NoCall

\* two threads: the fewest that contend for addressLock and race a lookup
\* against a change of addresses
Threads == {1, 2}

NoFrame == [addr |-> 0, range |-> <<>>, found |-> FALSE, id |-> NullId, offs |-> 0]

ConcIdle ==
  /\ addressLock = 0
  /\ pc = [t \in Threads |-> "idle"]
  /\ frame = [t \in Threads |-> NoFrame]
  /\ seen = [t \in Threads |-> {}]

\* void AddTo(GPUAddressRange range)
AddTo(range) ==
  /\ ~halted
  /\ Len(addresses) < MaxRanges
  /\ LET ok == AddToAssert(addresses, range)
     IN /\ lastCall' = [NoCall EXCEPT !.op = "AddTo", !.addr = range.start, !.ok = ok]
        /\ \/ /\ addresses' = AddToResult(addresses, range)
              /\ halted' = FALSE
           \/ /\ ~ok            \* RDCASSERT stops the process under a debugger
              /\ addresses' = addresses
              /\ halted' = TRUE

\* void RemoveFrom(D3D12_GPU_VIRTUAL_ADDRESS baseAddr)
RemoveFrom(baseAddr) ==
  /\ ~halted
  /\ LET ok == RemoveFromAssert(addresses, baseAddr)
     IN /\ lastCall' = [NoCall EXCEPT !.op = "RemoveFrom", !.addr = baseAddr, !.ok = ok]
        /\ \/ /\ addresses' \in RemoveFromResults(addresses, baseAddr)
              /\ halted' = FALSE
           \/ /\ ~ok            \* debug break, or erase(end()) crashing
              /\ addresses' = addresses
              /\ halted' = TRUE

\* void GetResIDFromAddr(D3D12_GPU_VIRTUAL_ADDRESS addr, ResourceId &id, UINT64 &offs)
GetResIDFromAddr(addr) ==
  /\ ~halted
  /\ LET res == LookupResult(addresses, addr)
     IN lastCall' = [op |-> "GetResIDFromAddr", addr |-> addr, ok |-> TRUE,
                     id |-> res.id, offs |-> res.offs]
  /\ UNCHANGED <<addresses, halted>>

\* a resource registers its range once: the id of a new range is not in the list
FreshId(s, range) == \A i \in 1..Len(s) : s[i].id # range.id

NextTracker ==
  \/ \E range \in GPUAddressRange :
       FreshId(addresses, range) /\ AddTo(range) /\ UNCHANGED notTracker
  \/ \E baseAddr \in Addrs : RemoveFrom(baseAddr) /\ UNCHANGED notTracker
  \/ \E addr \in Addrs : GetResIDFromAddr(addr) /\ UNCHANGED notTracker

----------------------------------------------------------------------------
(***************************************************************************)
(* The tracker called from several threads.  A call is a sequence of       *)
(* steps: SCOPED_LOCK(addressLock) waits for and takes the lock, the body  *)
(* runs inside it, and the end of the scope releases it.                   *)
(***************************************************************************)
ConcAddrs == 0..(ConcMaxAddr + 1)
ConcRange == {r \in GPUAddressRange : r.end <= ConcMaxAddr + 1 /\ r.id <= ConcMaxRanges}

\* the threads inside GetResIDFromAddr see every new content of addresses
Observe(s) ==
  [u \in Threads |->
     IF pc[u] \in {"get_called", "get_cs", "get_unlock", "get_check"}
     THEN seen[u] \cup {LookupResult(s, frame[u].addr)}
     ELSE seen[u]]

\* a thread calls AddTo(range): SCOPED_LOCK(addressLock) and the body
\* up to the insert
LockedAddToNoLock(t, range) ==
  /\ ~halted /\ pc[t] = "idle"
  /\ Len(addresses) < ConcMaxRanges
  /\ addressLock' = t
  /\ pc' = [pc EXCEPT ![t] = "add_cs"]
  /\ frame' = [frame EXCEPT ![t] = [NoFrame EXCEPT !.range = range]]
  /\ UNCHANGED <<addresses, halted, lastCall, seen>>
LockedAddTo(t, range) ==
  /\ ~halted /\ pc[t] = "idle"
  /\ Len(addresses) < ConcMaxRanges
  /\ addressLock = 0
  /\ addressLock' = t
  /\ pc' = [pc EXCEPT ![t] = "add_cs"]
  /\ frame' = [frame EXCEPT ![t] = [NoFrame EXCEPT !.range = range]]
  /\ UNCHANGED <<addresses, halted, lastCall, seen>>

\* lower_bound, RDCASSERT and addresses.insert(it, range), inside the lock
AddToBody(t) ==
  /\ ~halted /\ pc[t] = "add_cs"
  /\ LET range == frame[t].range
         ok == AddToAssert(addresses, range)
     IN \/ /\ addresses' = AddToResult(addresses, range)
           /\ halted' = FALSE
        \/ /\ ~ok
           /\ addresses' = addresses
           /\ halted' = TRUE
  /\ seen' = Observe(addresses')
  /\ pc' = [pc EXCEPT ![t] = "unlock"]
  /\ frame' = [frame EXCEPT ![t] = NoFrame]
  /\ UNCHANGED <<addressLock, lastCall>>

\* a thread calls RemoveFrom(baseAddr): SCOPED_LOCK(addressLock)
LockedRemoveFrom(t, baseAddr) ==
  /\ ~halted /\ pc[t] = "idle"
  /\ addressLock = 0
  /\ addressLock' = t
  /\ pc' = [pc EXCEPT ![t] = "rem_cs"]
  /\ frame' = [frame EXCEPT ![t] = [NoFrame EXCEPT !.addr = baseAddr]]
  /\ UNCHANGED <<addresses, halted, lastCall, seen>>

\* lower_bound, RDCASSERT and addresses.erase(it), inside the lock
RemoveFromBody(t) ==
  /\ ~halted /\ pc[t] = "rem_cs"
  /\ LET baseAddr == frame[t].addr
         ok == RemoveFromAssert(addresses, baseAddr)
     IN \/ /\ addresses' \in RemoveFromResults(addresses, baseAddr)
           /\ halted' = FALSE
        \/ /\ ~ok
           /\ addresses' = addresses
           /\ halted' = TRUE
  /\ seen' = Observe(addresses')
  /\ pc' = [pc EXCEPT ![t] = "unlock"]
  /\ frame' = [frame EXCEPT ![t] = NoFrame]
  /\ UNCHANGED <<addressLock, lastCall>>

\* the end of the SCOPED_LOCK scope of AddTo and RemoveFrom; the call returns
Unlock(t) ==
  /\ ~halted /\ pc[t] = "unlock"
  /\ addressLock' = 0
  /\ pc' = [pc EXCEPT ![t] = "idle"]
  /\ UNCHANGED <<addresses, halted, lastCall, frame, seen>>

\* a thread calls GetResIDFromAddr(addr): id = ResourceId(); offs = 0;
\* if(addr == 0) return;
GetCall(t, addr) ==
  /\ ~halted /\ pc[t] = "idle"
  /\ frame' = [frame EXCEPT ![t] = [NoFrame EXCEPT !.addr = addr]]
  /\ pc' = [pc EXCEPT ![t] = IF addr = 0 THEN "get_done" ELSE "get_called"]
  /\ seen' = [seen EXCEPT ![t] = {LookupResult(addresses, addr)}]
  /\ UNCHANGED <<addresses, halted, lastCall, addressLock>>

\* SCOPED_LOCK(addressLock) in GetResIDFromAddr
GetLock(t) ==
  /\ ~halted /\ pc[t] = "get_called"
  /\ addressLock = 0
  /\ addressLock' = t
  /\ pc' = [pc EXCEPT ![t] = "get_cs"]
  /\ UNCHANGED <<addresses, halted, lastCall, frame, seen>>

\* inside the lock: lower_bound; if(it == addresses.end()) return; range = *it;
GetBody(t) ==
  /\ ~halted /\ pc[t] = "get_cs"
  /\ LET it == lower_bound(addresses, frame[t].addr)
     IN frame' = [frame EXCEPT ![t] =
                    IF it = Len(addresses) + 1 THEN @
                    ELSE [@ EXCEPT !.found = TRUE, !.range = addresses[it]]]
  /\ pc' = [pc EXCEPT ![t] = "get_unlock"]
  /\ UNCHANGED <<addresses, halted, lastCall, addressLock, seen>>

\* the end of the SCOPED_LOCK scope of GetResIDFromAddr: by the return
\* inside it, or by falling out of the block
GetUnlock(t) ==
  /\ ~halted /\ pc[t] = "get_unlock"
  /\ addressLock' = 0
  /\ pc' = [pc EXCEPT ![t] = IF frame[t].found THEN "get_check" ELSE "get_done"]
  /\ UNCHANGED <<addresses, halted, lastCall, frame, seen>>

\* outside the lock, on the copy: if(addr < range.start || addr >= range.end)
\* return; id = range.id; offs = addr - range.start;
GetCheck(t) ==
  /\ ~halted /\ pc[t] = "get_check"
  /\ LET addr == frame[t].addr
         range == frame[t].range
     IN frame' = [frame EXCEPT ![t] =
                    IF addr < range.start \/ addr >= range.end THEN @
                    ELSE [@ EXCEPT !.id = range.id, !.offs = addr - range.start]]
  /\ pc' = [pc EXCEPT ![t] = "get_done"]
  /\ UNCHANGED <<addresses, halted, lastCall, addressLock, seen>>

\* GetResIDFromAddr returns to its caller with id and offs
GetReturn(t) ==
  /\ ~halted /\ pc[t] = "get_done"
  /\ pc' = [pc EXCEPT ![t] = "idle"]
  /\ frame' = [frame EXCEPT ![t] = NoFrame]
  /\ seen' = [seen EXCEPT ![t] = {}]
  /\ UNCHANGED <<addresses, halted, lastCall, addressLock>>

NextConc ==
  \/ \E t \in Threads, range \in ConcRange :
       FreshId(addresses, range) /\ LockedAddTo(t, range) /\ UNCHANGED notConc
  \/ \E t \in Threads : AddToBody(t) /\ UNCHANGED notConc
  \/ \E t \in Threads, baseAddr \in ConcAddrs :
       LockedRemoveFrom(t, baseAddr) /\ UNCHANGED notConc
  \/ \E t \in Threads : RemoveFromBody(t) /\ UNCHANGED notConc
  \/ \E t \in Threads : Unlock(t) /\ UNCHANGED notConc
  \/ \E t \in Threads, addr \in ConcAddrs : GetCall(t, addr) /\ UNCHANGED notConc
  \/ \E t \in Threads : GetLock(t) /\ UNCHANGED notConc
  \/ \E t \in Threads : GetBody(t) /\ UNCHANGED notConc
  \/ \E t \in Threads : GetUnlock(t) /\ UNCHANGED notConc
  \/ \E t \in Threads : GetCheck(t) /\ UNCHANGED notConc
  \/ \E t \in Threads : GetReturn(t) /\ UNCHANGED notConc

----------------------------------------------------------------------------
(***************************************************************************)
(* D3D12ResourceRecord::Insert                                             *)
(***************************************************************************)
\* Three records: enough for a record that is its own parent, cycles of
\* length two and three, a record reached along two parent paths and a
\* record outside the closure of another.
Records == {1, 2, 3}

\* a Chunk * is named by its key and the record whose m_Chunks holds it
ChunkOf(r, k) == [key |-> k, chunk |-> <<r, k>>]

\* the position at which a new key enters the map's iteration order
RECURSIVE KeyPos(_, _, _)
KeyPos(rl, k, i) ==
  IF i > Len(rl) \/ rl[i].key > k THEN i ELSE KeyPos(rl, k, i + 1)

\* std::map::insert of one element: a key already present is left alone,
\* a new one enters in key order
MapInsertAppend(rl, e) == Append(rl, e)
MapInsert(rl, e) ==
  IF \E i \in 1..Len(rl) : rl[i].key = e.key THEN rl
  ELSE LET i == KeyPos(rl, e.key, 1)
       IN SubSeq(rl, 1, i - 1) \o <<e>> \o SubSeq(rl, i, Len(rl))

\* recordlist.insert(m_Chunks.begin(), m_Chunks.end()) for record r
RECURSIVE MapInsertRange(_, _, _)
MapInsertRange(rl, r, keys) ==
  IF keys = {} THEN rl
  ELSE LET k == CHOOSE x \in keys : \A y \in keys : x <= y
       IN MapInsertRange(MapInsert(rl, ChunkOf(r, k)), r, keys \ {k})

\* if(!dataWritten) recordlist.insert(m_Chunks.begin(), m_Chunks.end());
InsertChunksNever(st, r, dataWritten) == st
InsertChunksOfAll(st, r, dataWritten) ==
  IF ~dataWritten
  THEN [st EXCEPT !.rl = MapInsertRange(MapInsertRange(@, r, m_Chunks[r]),
                                        (r % Cardinality(Records)) + 1,
                                        m_Chunks[(r % Cardinality(Records)) + 1]),
                  !.cnt[r] = @ + 1]
  ELSE st
InsertChunksAlways(st, r, dataWritten) ==
  [st EXCEPT !.rl = MapInsertRange(@, r, m_Chunks[r]), !.cnt[r] = @ + 1]
InsertChunks(st, r, dataWritten) ==
  IF ~dataWritten
  THEN [st EXCEPT !.rl = MapInsertRange(@, r, m_Chunks[r]), !.cnt[r] = @ + 1]
  ELSE st

\* Insert(recordlist) on record r, from the state st = [dw, rl, cnt, fl];
\* VisitParents is its loop over Parents (a std::set, iterated in order)
RECURSIVE InsertRec(_, _), VisitParents(_, _)
VisitParents(st, todo) ==
  IF todo = {} THEN st
  ELSE LET p == CHOOSE x \in todo : \A y \in todo : x <= y
       IN VisitParents(IF ~st.dw[p] THEN InsertRec(st, p) ELSE st, todo \ {p})

InsertRec(st, r) ==
  LET dataWritten == st.dw[r]
      st1 == [st EXCEPT !.dw[r] = TRUE,
                        !.fl[r] = IF dataWritten THEN @ ELSE @ + 1]
      st2 == VisitParents(st1, Parents[r])
  IN InsertChunks(st2, r, dataWritten)

EdgeCount(P) == Cardinality({e \in Records \X Records : e[2] \in P[e[1]]})

\* Records as created: any Parents graph, every chunk id owned by one
\* record, nothing written, an empty recordlist
InitInsert ==
  /\ Parents \in {P \in [Records -> SUBSET Records] : EdgeCount(P) <= MaxEdges}
  /\ \E owner \in [1..MaxChunk -> Records] :
       m_Chunks = [r \in Records |-> {k \in 1..MaxChunk : owner[k] = r}]
  /\ DataWritten = [r \in Records |-> FALSE]
  /\ recordlist = <<>>
  /\ insertCount = [r \in Records |-> 0]
  /\ flips = [r \in Records |-> 0]
  /\ lastInsert = "none"
  /\ called = {}

InsertIdle ==
  /\ Parents = [r \in Records |-> {}]
  /\ m_Chunks = [r \in Records |-> {}]
  /\ DataWritten = [r \in Records |-> FALSE]
  /\ recordlist = <<>>
  /\ insertCount = [r \in Records |-> 0]
  /\ flips = [r \in Records |-> 0]
  /\ lastInsert = "none"
  /\ called = {}

\* void Insert(map<int32_t, Chunk *> &recordlist), called on record r
Insert(r) ==
  LET st == InsertRec([dw |-> DataWritten, rl |-> recordlist,
                       cnt |-> insertCount, fl |-> flips], r)
  IN /\ DataWritten' = st.dw
     /\ recordlist' = st.rl
     /\ insertCount' = st.cnt
     /\ flips' = st.fl
     /\ lastInsert' = IF DataWritten[r] THEN "again" ELSE "first"
     /\ called' = called \cup {r}
     /\ UNCHANGED <<Parents, m_Chunks>>

NextInsert ==
  \E r \in Records : Insert(r) /\ UNCHANGED notInsert

(***************************************************************************)
(* Insert, one step at a time: a stack of activations, each with the       *)
(* record it runs on, its local dataWritten and the part of Parents its    *)
(* loop has still to visit.                                                *)
(***************************************************************************)
StepIdle ==
  /\ stack = <<>>
  /\ entered = [r \in Records |-> 0]

\* DataWritten = true; on entry, before the loop over Parents
EnterFlagLate(dw, r) == dw
EnterFlag(dw, r) == [dw EXCEPT ![r] = TRUE]

\* entry of Insert on record r: bool dataWritten = DataWritten; DataWritten = true;
Enter(r) ==
  /\ stack' = Append(stack, [rec |-> r, dataWritten |-> DataWritten[r], todo |-> Parents[r]])
  /\ DataWritten' = EnterFlag(DataWritten, r)
  /\ flips' = [flips EXCEPT ![r] = IF DataWritten[r] THEN @ ELSE @ + 1]

\* the next parent the loop of the running activation visits
NextParent == LET todo == stack[Len(stack)].todo
              IN CHOOSE x \in todo : \A y \in todo : x <= y

\* the running activation with its loop moved past parent p
Advance(p) == [stack EXCEPT ![Len(stack)].todo = @ \ {p}]

\* a call of Insert on record r from outside
CallInsert(r) ==
  /\ stack = <<>>
  /\ Enter(r)
  /\ entered' = [x \in Records |-> IF x = r THEN 1 ELSE 0]
  /\ lastInsert' = IF DataWritten[r] THEN "again" ELSE "first"
  /\ called' = called \cup {r}
  /\ UNCHANGED <<Parents, m_Chunks, recordlist, insertCount>>

\* if(!(*it)->DataWritten) (*it)->Insert(recordlist);
VisitParent ==
  /\ stack # <<>>
  /\ stack[Len(stack)].todo # {}
  /\ Len(stack) < MaxDepth
  /\ LET p == NextParent
     IN /\ ~DataWritten[p]
        /\ stack' = Append(Advance(p), [rec |-> p, dataWritten |-> FALSE, todo |-> Parents[p]])
        /\ DataWritten' = EnterFlag(DataWritten, p)
        /\ flips' = [flips EXCEPT ![p] = @ + 1]
        /\ entered' = [entered EXCEPT ![p] = @ + 1]
  /\ UNCHANGED <<Parents, m_Chunks, recordlist, insertCount, lastInsert, called>>

\* the loop passes a parent that is written already
SkipParent ==
  /\ stack # <<>>
  /\ stack[Len(stack)].todo # {}
  /\ LET p == NextParent
     IN /\ DataWritten[p]
        /\ stack' = Advance(p)
  /\ UNCHANGED <<Parents, m_Chunks, DataWritten, recordlist, insertCount, flips,
                 lastInsert, called, entered>>

\* the loop is over: if(!dataWritten) recordlist.insert(...); and return
ReturnInsert ==
  /\ stack # <<>>
  /\ stack[Len(stack)].todo = {}
  /\ LET top == stack[Len(stack)]
         st == InsertChunks([dw |-> DataWritten, rl |-> recordlist,
                             cnt |-> insertCount, fl |-> flips],
                            top.rec, top.dataWritten)
     IN /\ recordlist' = st.rl
        /\ insertCount' = st.cnt
  /\ stack' = SubSeq(stack, 1, Len(stack) - 1)
  /\ UNCHANGED <<Parents, m_Chunks, DataWritten, flips, lastInsert, called, entered>>

\* the thread inside Insert runs on
RunInsert ==
  \/ VisitParent /\ UNCHANGED notInsertSteps
  \/ SkipParent /\ UNCHANGED notInsertSteps
  \/ ReturnInsert /\ UNCHANGED notInsertSteps

NextInsertSteps ==
  \/ \E r \in Records : CallInsert(r) /\ UNCHANGED notInsertSteps
  \/ RunInsert

----------------------------------------------------------------------------
(***************************************************************************)
(* D3D12ResourceRecord::Bake                                               *)
(***************************************************************************)

\* the vectors (and the chunk map, in key order) and the sets of a
\* command-list record with its CmdListRecordingInfo
SeqFields == {"chunks", "barriers", "boundDescs", "bundles"}
SetFields == {"dirtied", "tiledResources"}

EmptyRecord ==
  [chunks |-> <<>>, barriers |-> <<>>, boundDescs |-> <<>>, bundles |-> <<>>,
   dirtied |-> {}, tiledResources |-> {}]

\* ResourceRecord::SwapChunks(other): the two records exchange their chunks
SwapChunks(l, b) ==
  [live |-> [l EXCEPT !.chunks = b.chunks], baked |-> [b EXCEPT !.chunks = l.chunks]]

\* Bake(): the records after the call, from the live record l and the baked b
BakeNoBundles(l, b) ==
  LET s == SwapChunks(l, b)
  IN [live  |-> [s.live EXCEPT !.barriers = b.barriers, !.dirtied = b.dirtied,
                               !.boundDescs = b.boundDescs],
      baked |-> [s.baked EXCEPT !.barriers = l.barriers, !.dirtied = l.dirtied,
                                !.boundDescs = l.boundDescs]]
BakeWithTiled(l, b) ==
  LET s == SwapChunks(l, b)
  IN [live  |-> [s.live EXCEPT !.barriers = b.barriers, !.dirtied = b.dirtied,
                               !.boundDescs = b.boundDescs, !.bundles = b.bundles,
                               !.tiledResources = b.tiledResources],
      baked |-> [s.baked EXCEPT !.barriers = l.barriers, !.dirtied = l.dirtied,
                                !.boundDescs = l.boundDescs, !.bundles = l.bundles,
                                !.tiledResources = l.tiledResources]]
BakeCopy(l, b) ==
  [live  |-> l,
   baked |-> [b EXCEPT !.chunks = l.chunks, !.barriers = l.barriers,
                       !.dirtied = l.dirtied, !.boundDescs = l.boundDescs,
                       !.bundles = l.bundles]]
BakeResult(l, b) ==
  LET s == SwapChunks(l, b)
  IN [live  |-> [s.live EXCEPT !.barriers = b.barriers, !.dirtied = b.dirtied,
                               !.boundDescs = b.boundDescs, !.bundles = b.bundles],
      baked |-> [s.baked EXCEPT !.barriers = l.barriers, !.dirtied = l.dirtied,
                                !.boundDescs = l.boundDescs, !.bundles = l.bundles]]

NoBake == [done |-> FALSE, live |-> EmptyRecord, baked |-> EmptyRecord]

\* a command list and its bakedCommands record as created: both have a
\* cmdInfo, and nothing is recorded
InitBake ==
  /\ live = EmptyRecord
  /\ baked = EmptyRecord
  /\ nextItem = 1
  /\ lastBake = NoBake

\* recording one command into the open list: a chunk is added, or an entry
\* is pushed to / inserted in one of the cmdInfo containers
Record(f) ==
  /\ nextItem <= MaxItems
  /\ live' = IF f \in SeqFields THEN [live EXCEPT ![f] = Append(@, nextItem)]
                                ELSE [live EXCEPT ![f] = @ \cup {nextItem}]
  /\ nextItem' = nextItem + 1
  /\ lastBake' = NoBake
  /\ UNCHANGED baked

\* void Bake(), at the close of a recording pass
Bake ==
  /\ ~lastBake.done
  /\ LET res == BakeResult(live, baked)
     IN /\ live' = res.live
        /\ baked' = res.baked
  /\ lastBake' = [done |-> TRUE, live |-> live, baked |-> baked]
  /\ UNCHANGED nextItem

NextBake ==
  \/ \E f \in SeqFields \cup SetFields :
       Record(f) /\ UNCHANGED notBake
  \/ Bake /\ UNCHANGED notBake

----------------------------------------------------------------------------
(***************************************************************************)
(* ReservedResource::Update and TileMapping                                *)
(***************************************************************************)

\* a null pointer argument: the null heap, and the null array
NULL == 0
NullArray == <<>>

Heaps == 1..NumHeaps
RangeFlags == {"NONE", "NULL", "SKIP", "REUSE_SINGLE_TILE"}

\* TileMapping(): the argument-less constructor
TileMappingDefault ==
  [NumResourceRegions |-> 1, resourceRegionStartCoords |-> NullArray,
   resourceRegionSizes |-> NullArray, NumRanges |-> 1, rangeFlags |-> NullArray,
   heapRangeStarts |-> NullArray, rangeTileCounts |-> NullArray]

\* TileMapping(inNumResourceRegions, ...): copies of the caller's arrays,
\* for arrays that are not null
TileMapping(n, coords, sizes, m, flags, starts, counts) ==
  [NumResourceRegions |-> n,
   resourceRegionStartCoords |-> SubSeq(coords, 1, n),
   resourceRegionSizes |-> SubSeq(sizes, 1, n),
   NumRanges |-> m,
   rangeFlags |-> SubSeq(flags, 1, m),
   heapRangeStarts |-> SubSeq(starts, 1, m),
   rangeTileCounts |-> SubSeq(counts, 1, m)]

\* the mappings a heap can hold when Update is called
ExistingMappings ==
  {TileMappingDefault,
   TileMapping(1, <<0>>, <<1>>, 1, <<"NONE">>, <<0>>, <<1>>)}

\* The arguments of Update. An array argument is null or holds one entry per
\* region / range: hasCoords tells whether pResourceRegionStartCoordinates is
\* given (the coordinates then count up from 0), sizeEach the tiles of every
\* region (0: pResourceRegionSizes is null), flag the flag of every range
\* ("null": pRangeFlags is null); heap range offsets count up from 0 and
\* every range is one tile.
UpdateArgs ==
  [NumResourceRegions : 1..MaxRegions,
   hasCoords : BOOLEAN, sizeEach : 0..MaxTiles,
   pHeap : {NULL} \cup Heaps,
   NumRanges : 1..MaxTileRanges,
   flag : {"null"} \cup RangeFlags]

\* the arrays the arguments a stand for
CoordsOf(a) ==
  IF ~a.hasCoords THEN NullArray ELSE [i \in 1..a.NumResourceRegions |-> i - 1]
SizesOf(a) ==
  IF a.sizeEach = 0 THEN NullArray ELSE [i \in 1..a.NumResourceRegions |-> a.sizeEach]
FlagsOf(a) ==
  IF a.flag = "null" THEN NullArray ELSE [i \in 1..a.NumRanges |-> a.flag]
StartsOf(a) == [i \in 1..a.NumRanges |-> i - 1]
CountsOf(a) == [i \in 1..a.NumRanges |-> 1]

\* mappings after Update(...), from mappings m
UpdateNoClear(m, pHeap) == m
UpdateResult(m, pHeap) == IF pHeap = NULL THEN <<>> ELSE m

NoUpdate == [called |-> FALSE, args |-> <<>>, pre |-> <<>>]

\* a reserved resource with the heap bindings earlier updates left it
InitReserved ==
  /\ mappings \in UNION {[D -> ExistingMappings] : D \in SUBSET Heaps}
  /\ lastUpdate = NoUpdate

ReservedIdle ==
  /\ mappings = <<>>
  /\ lastUpdate = NoUpdate

\* void Update(NumResourceRegions, pResourceRegionStartCoordinates,
\*             pResourceRegionSizes, pHeap, NumRanges, pRangeFlags,
\*             pHeapRangeStartOffsets, pRangeTileCounts, Flags)
Update(a) ==
  /\ mappings' = UpdateResult(mappings, a.pHeap)
  /\ lastUpdate' = [called |-> TRUE, args |-> a, pre |-> mappings]

NextReserved == \E a \in UpdateArgs : Update(a) /\ UNCHANGED notReserved

----------------------------------------------------------------------------
(***************************************************************************)
(* Descriptor handles and PortableHandle                                   *)
(***************************************************************************)

\* sizeof(D3D12Descriptor)
DescSize == 64

HeapObjs == 1..NumHeapObjs
DescAddrs == {DescSize * k : k \in 1..MaxSlots}

NoHeap == [alive |-> FALSE, id |-> NullId, descriptors |-> 0, num |-> 0]
Garbage == [heap |-> 0, idx |-> 0]

\* the D3D12Descriptor at address d (samp.heap and samp.idx)
Deref(d) == IF d \in DescAddrs THEN descMem[d] ELSE Garbage

\* D3D12Descriptor::operator D3D12_CPU_DESCRIPTOR_HANDLE(), on the descriptor at d
HandleOfHeap(d) == [ptr |-> Deref(d).heap]
HandleOf(d) == [ptr |-> d]

\* D3D12Descriptor *GetWrapped(D3D12_CPU_DESCRIPTOR_HANDLE handle)
GetWrapped(handle) == handle.ptr

\* PortableHandle ToPortableHandle(D3D12Descriptor *handle): the owning
\* heap's id and the index within the heap
ToPortableHandle(d) ==
  LET desc == Deref(d)
  IN IF desc.heap \in HeapObjs
     THEN [heap |-> heapObj[desc.heap].id, index |-> desc.idx]
     ELSE [heap |-> NullId, index |-> 0]

\* D3D12Descriptor *DescriptorFromPortableHandle(manager, handle): the heap
\* id resolved through the manager, then indexed into its descriptors
DescriptorFromPortableHandle(handle) ==
  IF handle.heap \in DOMAIN liveRes
  THEN heapObj[liveRes[handle.heap]].descriptors + handle.index * DescSize
  ELSE 0

\* the addresses of the descriptor array of n entries at base
ArrayAt(base, n) == {base + i * DescSize : i \in 0..(n - 1)}

InitHandle ==
  /\ heapObj = [h \in HeapObjs |-> NoHeap]
  /\ liveRes = <<>>
  /\ descMem = [d \in DescAddrs |-> Garbage]
  /\ nextResId = 1

\* a descriptor heap of n descriptors is created at base and registered:
\* descriptor i of the array records its heap and its index i
CreateDescriptorHeap(h, base, n) ==
  /\ ~heapObj[h].alive
  /\ nextResId <= MaxResId
  /\ ArrayAt(base, n) \subseteq DescAddrs
  /\ \A g \in HeapObjs :
       heapObj[g].alive => ArrayAt(base, n) \cap ArrayAt(heapObj[g].descriptors, heapObj[g].num) = {}
  /\ heapObj' = [heapObj EXCEPT ![h] =
                   [alive |-> TRUE, id |-> nextResId, descriptors |-> base, num |-> n]]
  /\ liveRes' = [i \in DOMAIN liveRes \cup {nextResId} |->
                   IF i = nextResId THEN h ELSE liveRes[i]]
  /\ descMem' = [d \in DescAddrs |->
                   IF d \in ArrayAt(base, n)
                   THEN [heap |-> h, idx |-> (d - base) \div DescSize]
                   ELSE descMem[d]]
  /\ nextResId' = nextResId + 1

\* the heap is released: it leaves the manager, its memory is freed
ReleaseDescriptorHeap(h) ==
  /\ heapObj[h].alive
  /\ heapObj' = [heapObj EXCEPT ![h] = NoHeap]
  /\ liveRes' = [i \in DOMAIN liveRes \ {heapObj[h].id} |-> liveRes[i]]
  /\ descMem' = [d \in DescAddrs |->
                   IF d \in ArrayAt(heapObj[h].descriptors, heapObj[h].num)
                   THEN Garbage ELSE descMem[d]]
  /\ UNCHANGED nextResId

NextHandle ==
  \/ \E h \in HeapObjs, base \in DescAddrs, n \in 1..MaxDescs :
       CreateDescriptorHeap(h, base, n) /\ UNCHANGED notHandle
  \/ \E h \in HeapObjs : ReleaseDescriptorHeap(h) /\ UNCHANGED notHandle

----------------------------------------------------------------------------
(***************************************************************************)
(* D3D12Descriptor::GetType                                                *)
(***************************************************************************)

\* enum class D3D12DescriptorType
Sampler == 0
CBV == 4096
SRV == CBV + 1
UAV == CBV + 2
RTV == CBV + 3
DSV == CBV + 4
Undefined == CBV + 5

\* The values the int at nonsamp.type can hold: a sampler's D3D12_FILTER
\* (which shares its location), all bits set, and the values around the
\* enumerators from CBV to Undefined
TagVals == (-1..MaxFilter) \cup ((CBV - TagMargin)..(Undefined + TagMargin))

\* D3D12DescriptorType GetType() const, on a descriptor whose tag is type
GetTypeInclusive(type) == IF type <= CBV THEN Sampler ELSE type
GetTypeResult(type) == IF type < CBV THEN Sampler ELSE type

NoType == [called |-> FALSE, val |-> Sampler]

TypeIdle ==
  /\ nonsampType = Undefined
  /\ typeRet = NoType

\* a descriptor as its memory is found: any value in the tag
InitType ==
  /\ nonsampType \in TagVals
  /\ typeRet = NoType

\* a write to the descriptor's memory that leaves t in nonsamp.type
\* (which is samp.desc.Filter of a sampler)
WriteType(t) ==
  /\ nonsampType' = t
  /\ typeRet' = NoType

\* a call of GetType()
GetType ==
  /\ typeRet' = [called |-> TRUE, val |-> GetTypeResult(nonsampType)]
  /\ UNCHANGED nonsampType

NextType ==
  \/ \E t \in TagVals : WriteType(t) /\ UNCHANGED notType
  \/ GetType /\ UNCHANGED notType

----------------------------------------------------------------------------
(***************************************************************************)
(* D3D12_UNORDERED_ACCESS_VIEW_DESC_SQUEEZED.  A UINT and a UINT64 are     *)
(* sequences of 16-bit limbs, lowest first; an enum is its int value.      *)
(***************************************************************************)

\* values of the enums DXGI_FORMAT, D3D12_UAV_DIMENSION and
\* D3D12_BUFFER_UAV_FLAGS: inside a byte, and beyond it
EnumVals == {0, 2, 255} \cup {256 * w + k : w \in 1..MaxWrap, k \in {0, 2}}
DimVals == {2, 255, 258}
FlagVals == {1, 257}

\* values of a UINT and of a UINT64: small, above 16 / 32 bits, and the largest
U32Vals == {<<1, 0>>, <<65535, 65535>>}
U64Vals == {<<0, 0, 0, 0>>, <<0, 0, 1, 0>>, <<65535, 65535, 65535, 65535>>}

\* D3D12_UNORDERED_ACCESS_VIEW_DESC, read as a buffer view
NativeUAV ==
  [Format : EnumVals, ViewDimension : DimVals,
   FirstElement : U64Vals, NumElements : U32Vals,
   StructureByteStride : U32Vals, CounterOffsetInBytes : U64Vals \ {<<0, 0, 0, 0>>},
   Flags : FlagVals]

\* the conversion (uint8_t)x
Uint8(x) == x % 256

\* assignment of v to an unsigned field of n limbs
ToWidth(v, n) == [i \in 1..n |-> IF i <= Len(v) THEN v[i] ELSE 0]

\* the struct after Init(desc)
InitResultNarrow(desc) ==
  [Format |-> Uint8(desc.Format),
   ViewDimension |-> Uint8(desc.ViewDimension),
   BufferFlags |-> Uint8(desc.Flags),
   FirstElement |-> ToWidth(ToWidth(desc.FirstElement, 2), 4),
   NumElements |-> ToWidth(desc.NumElements, 2),
   StructureByteStride |-> ToWidth(desc.StructureByteStride, 2),
   CounterOffsetInBytes |-> ToWidth(ToWidth(desc.CounterOffsetInBytes, 2), 4)]
InitResult(desc) ==
  [Format |-> Uint8(desc.Format),
   ViewDimension |-> Uint8(desc.ViewDimension),
   BufferFlags |-> Uint8(desc.Flags),
   FirstElement |-> ToWidth(desc.FirstElement, 4),
   NumElements |-> ToWidth(desc.NumElements, 2),
   StructureByteStride |-> ToWidth(desc.StructureByteStride, 2),
   CounterOffsetInBytes |-> ToWidth(desc.CounterOffsetInBytes, 4)]

\* the description AsDesc() returns for the struct sq
AsDescResult(sq) ==
  [Format |-> sq.Format,
   ViewDimension |-> sq.ViewDimension,
   FirstElement |-> ToWidth(sq.FirstElement, 4),
   NumElements |-> ToWidth(sq.NumElements, 2),
   StructureByteStride |-> ToWidth(sq.StructureByteStride, 2),
   CounterOffsetInBytes |-> ToWidth(sq.CounterOffsetInBytes, 4),
   Flags |-> sq.BufferFlags]

\* D3D12_UNORDERED_ACCESS_VIEW_DESC desc = {};
ZeroUAV ==
  [Format |-> 0, ViewDimension |-> 0,
   FirstElement |-> <<0, 0, 0, 0>>, NumElements |-> <<0, 0>>,
   StructureByteStride |-> <<0, 0>>, CounterOffsetInBytes |-> <<0, 0, 0, 0>>,
   Flags |-> 0]

NoDesc == [called |-> FALSE, desc |-> ZeroUAV]

\* a squeezed struct on which Init has not been called yet
UAVIdle ==
  /\ uavArg = NoDesc
  /\ uavDesc = InitResult(ZeroUAV)
  /\ uavRet = NoDesc

\* void Init(const D3D12_UNORDERED_ACCESS_VIEW_DESC &desc)
UAVInit(desc) ==
  /\ uavArg' = [called |-> TRUE, desc |-> desc]
  /\ uavDesc' = InitResult(desc)
  /\ uavRet' = NoDesc

\* D3D12_UNORDERED_ACCESS_VIEW_DESC AsDesc() const, on a struct Init has filled
AsDesc ==
  /\ uavArg.called
  /\ uavRet' = [called |-> TRUE, desc |-> AsDescResult(uavDesc)]
  /\ UNCHANGED <<uavArg, uavDesc>>

NextUAV ==
  \/ \E desc \in NativeUAV : UAVInit(desc) /\ UNCHANGED notUAV
  \/ AsDesc /\ UNCHANGED notUAV

----------------------------------------------------------------------------
\* each specification starts its own component and leaves the others idle
OthersIdle ==
  InitTracker /\ ConcIdle /\ StepIdle /\ InitBake /\ InitHandle /\ UAVIdle
StartTracker ==
  OthersIdle /\ InsertIdle /\ ReservedIdle /\ TypeIdle
StartInsert ==
  InitInsert /\ OthersIdle /\ ReservedIdle /\ TypeIdle
StartReserved ==
  InitReserved /\ OthersIdle /\ InsertIdle /\ TypeIdle
StartType ==
  InitType /\ OthersIdle /\ InsertIdle /\ ReservedIdle

SpecTracker == StartTracker /\ [][NextTracker]_vars

SpecConc == StartTracker /\ [][NextConc]_vars

SpecInsert == StartInsert /\ [][NextInsert]_vars

\* the thread that called Insert keeps running until the call returns
SpecInsertSteps == StartInsert /\ [][NextInsertSteps]_vars /\ WF_vars(RunInsert)

SpecBake == StartTracker /\ [][NextBake]_vars

SpecReserved == StartReserved /\ [][NextReserved]_vars

SpecHandle == StartTracker /\ [][NextHandle]_vars

SpecType == StartType /\ [][NextType]_vars

SpecUAV == StartTracker /\ [][NextUAV]_vars

----------------------------------------------------------------------------
(***************************************************************************)
(* Properties of the address-range tracker                                 *)
(***************************************************************************)

\* the list is ordered by start (the order operator< gives lower_bound: descending)
SortedByStart(s) == \A i, j \in 1..Len(s) : i < j => s[i].start >= s[j].start

\* no address lies in [start, end) of two entries
NonOverlapping(s) ==
  \A i, j \in 1..Len(s) : i # j => (s[i].end <= s[j].start \/ s[j].end <= s[i].start)

\* C1: after every AddTo / RemoveFrom call the addresses list is sorted by
\* start address and its ranges are pairwise non-overlapping.
C1_SortedNonOverlapping == SortedByStart(addresses) /\ NonOverlapping(addresses)

\* the registered ranges that contain address a
Containing(s, a) == {i \in 1..Len(s) : s[i].start <= a /\ a < s[i].end}

\* C2: GetResIDFromAddr(a) returns the id and offset a - start of a registered
\* range containing a, and the null id with offset 0 when no range contains a.
C2_LookupFindsContainingRange ==
  lastCall.op = "GetResIDFromAddr" =>
    LET a == lastCall.addr
        c == Containing(addresses, a)
    IN IF c # {}
       THEN \E i \in c : /\ lastCall.id = addresses[i].id
                          /\ lastCall.offs = a - addresses[i].start
       ELSE lastCall.id = NullId /\ lastCall.offs = 0

\* the new range shares an address with a registered one
Overlaps(s, range) ==
  \E i \in 1..Len(s) : range.start < s[i].end /\ s[i].start < range.end

\* C11: whenever AddTo is called with a range that overlaps a registered
\* range, its RDCASSERT fails.
C11_OverlapFailsAssert ==
  [][\A range \in GPUAddressRange :
       (AddTo(range) /\ Overlaps(addresses, range)) => ~lastCall'.ok]_vars

\* C15: RemoveFrom(baseAddr) with an address inside a registered range
\* removes exactly that range and keeps the others in their order; with an
\* address no registered range contains, its RDCASSERT fails.
C15_RemoveFromRemovesContaining ==
  [][\A baseAddr \in Addrs :
       RemoveFrom(baseAddr) =>
         IF Containing(addresses, baseAddr) # {}
         THEN \E i \in Containing(addresses, baseAddr) :
                addresses' = VecErase(addresses, i)
         ELSE ~lastCall'.ok]_vars

\* the first entry of s whose start is at most a; Len(s) + 1 when there is none
FirstAtMost(s, a) ==
  LET c == {i \in 1..Len(s) : s[i].start <= a}
  IN IF c = {} THEN Len(s) + 1 ELSE CHOOSE i \in c : \A j \in c : i <= j

\* lower_bound returns the entry with the greatest start that is at most a,
\* or end when every entry starts above a
SearchFindsGreatestStart(s) ==
  \A a \in Addrs :
    LET it == lower_bound(s, a)
    IN /\ it = FirstAtMost(s, a)
       /\ it # Len(s) + 1 =>
            \A j \in 1..Len(s) : s[j].start <= a => s[j].start <= s[it].start
       /\ it = Len(s) + 1 => \A j \in 1..Len(s) : s[j].start > a

\* C18: addresses is kept in descending order of start: AddTo inserts the new
\* range directly before the first entry whose start is at most the new
\* start, and lower_bound returns the entry with the greatest start that is
\* at most the searched address, or end when every entry starts above it.
C18_DescendingByStart ==
  [][/\ addresses' # addresses =>
          SortedByStart(addresses') /\ SearchFindsGreatestStart(addresses')
     /\ (lastCall'.op = "AddTo" /\ ~halted') =>
          LET it == FirstAtMost(addresses, lastCall'.addr)
          IN /\ Len(addresses') = Len(addresses) + 1
             /\ addresses'[it].start = lastCall'.addr
             /\ VecErase(addresses', it) = addresses]_vars

\* three ranges with different starts are registered and a lookup has found
\* the middle one
C18_Witness ==
  /\ Len(addresses) = 3
  /\ addresses[1].start > addresses[2].start
  /\ addresses[2].start > addresses[3].start
  /\ lastCall.op = "GetResIDFromAddr"
  /\ lastCall.id = addresses[2].id

\* the threads inside an addressLock section
InLock == {t \in Threads : pc[t] \in {"add_cs", "rem_cs", "unlock", "get_cs", "get_unlock"}}

\* C10: at most one thread is inside an addressLock section at any time (and
\* it owns the lock), and the result GetResIDFromAddr returns is the result
\* of a lookup on the contents addresses had at one instant between the
\* call and the return.
C10_MutexAndAtomicLookup ==
  /\ Cardinality(InLock) <= 1
  /\ \A t \in Threads : t \in InLock <=> addressLock = t
  /\ \A t \in Threads :
       pc[t] = "get_done" => [id |-> frame[t].id, offs |-> frame[t].offs] \in seen[t]

\* a lookup that found its range is about to return while another thread has
\* changed addresses since the call and a third call waits for the lock
C10_Witness ==
  \E t, u \in Threads :
    /\ t # u
    /\ pc[t] = "get_done" /\ frame[t].id # NullId
    /\ Cardinality(seen[t]) > 1
    /\ pc[u] \in {"add_cs", "rem_cs"}

----------------------------------------------------------------------------
(***************************************************************************)
(* Properties of Insert                                                    *)
(***************************************************************************)

\* C3: over any sequence of Insert calls each record's chunks are inserted at
\* most once, and its DataWritten flag goes from false to true at most once
\* and never back.
C3_InsertedAtMostOnce ==
  \A r \in Records :
    /\ insertCount[r] <= 1
    /\ flips[r] <= 1
    /\ (flips[r] = 1 \/ insertCount[r] = 1) => DataWritten[r]

\* a record reached through two parent paths is written, its chunks are in
\* recordlist once, and Insert was called again on a written record
C3_Witness ==
  /\ lastInsert = "again"
  /\ \E r, a, b \in Records :
       /\ a # b /\ r # a /\ r # b
       /\ r \in Parents[a] /\ r \in Parents[b] /\ b \in Parents[a]
       /\ DataWritten[a] /\ DataWritten[b]
       /\ m_Chunks[r] # {}
       /\ insertCount[r] = 1

\* the positions of record r's chunks in recordlist
Positions(r) == {i \in 1..Len(recordlist) : recordlist[i].chunk[1] = r}

\* the records reachable from the set S through Parents links
RECURSIVE Closure(_, _)
Closure(S, n) ==
  IF n = 0 THEN S ELSE Closure(S \cup UNION {Parents[x] : x \in S}, n - 1)
Ancestors(r) == Closure(Parents[r], Cardinality(Records))

Reach(S) == Closure(S, Cardinality(Records))

\* chunk e of record p is in the list rl
InList(rl, e) == \E i \in 1..Len(rl) : rl[i] = e

\* C12: every chunk a call of Insert on record r adds to recordlist belongs
\* to r or to a record reachable from r through Parents; a record that is
\* reachable from no record Insert was called on has no chunk in recordlist
\* and stays unwritten.
C12_OnlyReachableInserted ==
  [][\A r \in Records :
       Insert(r) =>
         /\ \A i \in 1..Len(recordlist') :
              ~InList(recordlist, recordlist'[i]) =>
                recordlist'[i].chunk[1] \in Reach({r})
         /\ \A x \in Records \ Reach(called') :
              /\ ~DataWritten'[x]
              /\ \A i \in 1..Len(recordlist') : recordlist'[i].chunk[1] # x]_vars

\* Insert has written a record and its parent, and left alone a child of
\* that record which has chunks and was never reachable
C12_Witness ==
  \E r \in called, p, x \in Records :
    /\ p # r /\ x # r /\ x # p
    /\ p \in Parents[r] /\ r \in Parents[x]
    /\ x \notin Reach(called)
    /\ m_Chunks[x] # {} /\ m_Chunks[p] # {}
    /\ Positions(p) # {} /\ Positions(x) = {}
    /\ DataWritten[p] /\ ~DataWritten[x]

\* C19: Insert terminates on every Parents graph, cycles and self parents
\* included: every call that has started returns, and between a top-level
\* call and its return Insert is entered at most once on each record.
C19_InsertTerminates ==
  /\ [](\A r \in Records : entered[r] <= 1)
  /\ (stack # <<>>) ~> (stack = <<>>)

\* a top-level call has returned after entering a record that is its own
\* parent and lies on a cycle with another record, which it entered too
C19_Witness ==
  /\ stack = <<>>
  /\ \E r, p \in Records :
       /\ r # p
       /\ r \in Parents[r] /\ p \in Parents[r] /\ r \in Parents[p]
       /\ entered[r] = 1 /\ entered[p] = 1

\* C20: when a top-level Insert has returned the written records are closed
\* under Parents: each parent of a written record is written and has its
\* chunks in recordlist.
C20_WrittenClosedUnderParents ==
  \A r \in Records :
    DataWritten[r] =>
      \A p \in Parents[r] :
        /\ DataWritten[p]
        /\ \A k \in m_Chunks[p] : InList(recordlist, ChunkOf(p, k))

\* a written record has a written grandparent with chunks, on a graph where
\* another record is still unwritten
C20_Witness ==
  \E r, p, g \in Records :
    /\ r # p /\ p # g /\ r # g
    /\ p \in Parents[r] /\ g \in Parents[p]
    /\ called = {r}
    /\ DataWritten[r] /\ DataWritten[g] /\ m_Chunks[g] # {}

----------------------------------------------------------------------------
(***************************************************************************)
(* Properties of Bake                                                      *)
(***************************************************************************)
Swapped == {"chunks", "barriers", "dirtied", "boundDescs", "bundles"}

\* field f of the record rec holds nothing
IsEmpty(rec, f) == IF f \in SeqFields THEN Len(rec[f]) = 0 ELSE rec[f] = {}

\* C5: Bake() exchanges the chunk list and the barriers, dirtied, boundDescs
\* and bundles lists: afterwards the baked record holds what the live record
\* held before the call, and the live record what the baked record held.
C5_BakeExchanges ==
  lastBake.done =>
    \A f \in Swapped : baked[f] = lastBake.live[f] /\ live[f] = lastBake.baked[f]

\* Bake has run on a live record with something in one of the five lists,
\* a list in which the baked record held an entry of an earlier pass
C5_Witness ==
  /\ lastBake.done
  /\ \E f \in Swapped : ~IsEmpty(lastBake.live, f) /\ ~IsEmpty(lastBake.baked, f)
  /\ \A f \in Swapped : baked[f] = lastBake.live[f]

\* C6 as claimed: after every Bake() the live record's chunk list and its
\* barriers, dirtied, boundDescs and bundles lists are empty.
C6_LiveResetAfterBake ==
  lastBake.done => \A f \in Swapped : IsEmpty(live, f)

\* C6 as amended: after Bake() each of the five lists of the live record is
\* empty exactly when the baked record's list was empty before the call (as
\* it is for a newly created baked record).
C6_LiveEmptyIffBakedWasEmpty ==
  lastBake.done =>
    \A f \in Swapped :
      IsEmpty(live, f) <=> IsEmpty(lastBake.baked, f)

\* a first Bake onto the empty baked record has left the live record empty
C6_Witness ==
  /\ lastBake.done
  /\ \E f \in Swapped : ~IsEmpty(lastBake.live, f)
  /\ \A f \in Swapped : IsEmpty(lastBake.baked, f) /\ IsEmpty(live, f)

\* C21: Bake() leaves the tiledResources set of both records unchanged: the
\* tiled resources referenced during recording stay with the live record
\* and are not carried over to the baked record with the other lists.
C21_TiledResourcesStay ==
  lastBake.done =>
    /\ live.tiledResources = lastBake.live.tiledResources
    /\ baked.tiledResources = lastBake.baked.tiledResources

\* Bake has moved recorded barriers and dirtied ids to the baked record
\* while the tiled resource recorded with them is still in the live record
\* and not in the baked one
C21_Witness ==
  /\ lastBake.done
  /\ lastBake.live.tiledResources # {}
  /\ live.tiledResources = lastBake.live.tiledResources
  /\ baked.tiledResources = {}
  /\ baked.barriers # <<>> /\ baked.dirtied # {}

----------------------------------------------------------------------------
(***************************************************************************)
(* Properties of ReservedResource::Update                                  *)
(***************************************************************************)

C8_NullSizesGiveOneTileRegions ==
  (/\ lastUpdate.called
   /\ CoordsOf(lastUpdate.args) # NullArray
   /\ SizesOf(lastUpdate.args) = NullArray
   /\ lastUpdate.args.pHeap # NULL) =>
    LET a == lastUpdate.args
    IN /\ a.pHeap \in DOMAIN mappings
       /\ mappings[a.pHeap].NumResourceRegions = a.NumResourceRegions
       /\ mappings[a.pHeap].resourceRegionStartCoords = CoordsOf(a)
       /\ mappings[a.pHeap].resourceRegionSizes = [i \in 1..a.NumResourceRegions |-> 1]


\* C13: after Update with a non-null pHeap the mappings table has an entry
\* for that heap holding the resource regions and heap ranges of the call,
\* and the entries of the other heaps are as before.
C13_UpdateStoresMapping ==
  (lastUpdate.called /\ lastUpdate.args.pHeap # NULL) =>
    LET a == lastUpdate.args
        pre == lastUpdate.pre
    IN /\ a.pHeap \in DOMAIN mappings
       /\ mappings[a.pHeap].NumResourceRegions = a.NumResourceRegions
       /\ mappings[a.pHeap].resourceRegionStartCoords = CoordsOf(a)
       /\ mappings[a.pHeap].NumRanges = a.NumRanges
       /\ mappings[a.pHeap].rangeFlags = FlagsOf(a)
       /\ mappings[a.pHeap].heapRangeStarts = StartsOf(a)
       /\ mappings[a.pHeap].rangeTileCounts = CountsOf(a)
       /\ DOMAIN mappings \ {a.pHeap} = DOMAIN pre \ {a.pHeap}
       /\ \A h \in DOMAIN pre \ {a.pHeap} : mappings[h] = pre[h]

\* C14: an Update in which every range has the flag SKIP leaves the
\* resource's tile mappings as they were, whether pHeap is null or not.
C14_SkipLeavesMappings ==
  (lastUpdate.called /\ lastUpdate.args.flag = "SKIP") => mappings = lastUpdate.pre

----------------------------------------------------------------------------
(***************************************************************************)
(* Properties of the descriptor handles                                    *)
(***************************************************************************)

\* C9: for the descriptor at index i of a registered heap, with handle h,
\* ToPortableHandle(h) is (the heap's id, i), and
\* DescriptorFromPortableHandle(manager, ToPortableHandle(h)) is h again.
C9_PortableHandleRoundTrip ==
  \A g \in HeapObjs : heapObj[g].alive =>
    \A i \in 0..(heapObj[g].num - 1) :
      LET h == HandleOf(heapObj[g].descriptors + i * DescSize)
          portable == ToPortableHandle(GetWrapped(h))
      IN /\ portable = [heap |-> heapObj[g].id, index |-> i]
         /\ HandleOf(DescriptorFromPortableHandle(portable)) = h

\* two heaps are registered, one of them with a descriptor at index 1
C9_Witness ==
  /\ \A g \in HeapObjs : heapObj[g].alive
  /\ \E g \in HeapObjs : heapObj[g].num > 1 /\ heapObj[g].descriptors > DescSize

----------------------------------------------------------------------------
(***************************************************************************)
(* Properties of the descriptor's tag and of the squeezed UAV description  *)
(***************************************************************************)

\* C16: GetType() returns Sampler when the stored tag is below CBV, and
\* otherwise the stored tag itself, which is never Sampler.
C16_GetTypeBoundary ==
  typeRet.called =>
    IF nonsampType < CBV
    THEN typeRet.val = Sampler
    ELSE typeRet.val = nonsampType /\ typeRet.val # Sampler

\* GetType has returned CBV for the tag exactly at the boundary
C16_Witness ==
  /\ typeRet.called
  /\ nonsampType = CBV
  /\ typeRet.val = CBV

\* C17: AsDesc() after Init(d) returns d's FirstElement, NumElements,
\* StructureByteStride and CounterOffsetInBytes, and d's Format,
\* ViewDimension and Flags reduced modulo 256, which are d's own values
\* when these lie in 0..255.
C17_SqueezeRoundTrip ==
  uavRet.called =>
    LET d == uavArg.desc
        r == uavRet.desc
    IN /\ r.FirstElement = d.FirstElement
       /\ r.NumElements = d.NumElements
       /\ r.StructureByteStride = d.StructureByteStride
       /\ r.CounterOffsetInBytes = d.CounterOffsetInBytes
       /\ r.Format = d.Format % 256
       /\ r.ViewDimension = d.ViewDimension % 256
       /\ r.Flags = d.Flags % 256
       /\ d.Format \in 0..255 => r.Format = d.Format
       /\ d.ViewDimension \in 0..255 => r.ViewDimension = d.ViewDimension
       /\ d.Flags \in 0..255 => r.Flags = d.Flags

\* AsDesc has returned a description whose Format was above 255, whose
\* ViewDimension and Flags fit a byte and whose FirstElement and
\* CounterOffsetInBytes need all 64 bits
C17_Witness ==
  /\ uavRet.called
  /\ uavArg.desc.Format > 255 /\ uavRet.desc.Format = 2
  /\ uavArg.desc.ViewDimension = 255 /\ uavArg.desc.Flags = 1
  /\ uavArg.desc.FirstElement[4] > 0
  /\ uavArg.desc.CounterOffsetInBytes[3] > 0
  /\ uavRet.desc.NumElements[2] > 0

====
